---- MODULE Spec2Model ----
(***************************************************************************)
(* QuickEval.py: a tkinter desktop tool that fetches financial statements  *)
(* and evaluates five valuation heuristics.  The model covers the UI       *)
(* thread (button handlers, the 100 ms queue poll, the theme toggles), the *)
(* worker pool started by Run All, the result queue, the result table, the *)
(* snapshot caches (data_cache and the lru_cache around fetch_stock_data)  *)
(* and the five formulas.                                                  *)
(***************************************************************************)
EXTENDS Integers, Sequences, FiniteSets, TLC

(***************************************************************************)
(* Numbers.  A float is modelled as an exact extended rational <<n, d>> in *)
(* lowest terms: d > 0 is the finite value n/d, <<1,0>> is inf, <<-1,0>>   *)
(* is -inf and <<0,0>> is nan.  Rounding error and the sign of zero are    *)
(* not modelled.                                                           *)
(***************************************************************************)
Abs(x) == IF x < 0 THEN -x ELSE x

Sign(x) == IF x < 0 THEN -1 ELSE IF x > 0 THEN 1 ELSE 0

RECURSIVE Gcd(_, _)
Gcd(a, b) == IF b = 0 THEN a ELSE Gcd(b, a % b)

Norm(n, d) ==
    IF d = 0 THEN <<Sign(n), 0>>
    ELSE LET g == Gcd(Abs(n), Abs(d))
             s == Sign(d)
         IN  <<(s * n) \div g, (s * d) \div g>>

Num(i) == <<i, 1>>

NaN == <<0, 0>>

IsNaN(x) == x = NaN

IsFinite(x) == x[2] # 0

XAdd(x, y) == Norm(x[1] * y[2] + y[1] * x[2], x[2] * y[2])

XNeg(x) == <<-x[1], x[2]>>

XSub(x, y) == XAdd(x, XNeg(y))

XMul(x, y) == Norm(x[1] * y[1], x[2] * y[2])

\* 1/x in IEEE arithmetic: 1/0 is inf, 1/inf is 0, 1/nan is nan.
Recip(x) == IF x[1] < 0 THEN <<-x[2], -x[1]>> ELSE <<x[2], x[1]>>

\* numpy float64 division: x/0 is +-inf or nan, never an exception.
NpDiv(x, y) == XMul(x, Recip(y))

\* x > y; False when either side is nan (inf - inf is nan too).
XGt(x, y) == XSub(x, y)[1] > 0

XLt(x, y) == XGt(y, x)

\* x >= y; False when either side is nan.
XGe(x, y) == ~IsNaN(x) /\ ~IsNaN(y) /\ ~XGt(y, x)

XLe(x, y) == XGe(y, x)

\* bool(x) of a number: zero is falsy, everything else (nan included) truthy.
Truthy(x) == x # Num(0)

RECURSIVE XPow(_, _)
XPow(x, k) == IF k = 0 THEN Num(1) ELSE XMul(x, XPow(x, k - 1))

RECURSIVE XSum(_)
XSum(s) == IF s = <<>> THEN Num(0) ELSE XAdd(Head(s), XSum(Tail(s)))

\* pandas Series.mean(): nan entries are skipped; nan when nothing is left.
SeriesMean(s) ==
    LET vals == SelectSeq(s, LAMBDA v : ~IsNaN(v))
    IN  IF vals = <<>> THEN NaN ELSE NpDiv(XSum(vals), Num(Len(vals)))

\* pandas Series.head(k)
SeriesHead(s, k) == IF Len(s) <= k THEN s ELSE SubSeq(s, 1, k)

\* pandas Series.pct_change(fill_method=None): nan first, then s[i]/s[i-1] - 1.
PctChange(s) ==
    [i \in 1..Len(s) |->
        IF i = 1 THEN NaN ELSE NpDiv(XSub(s[i], s[i - 1]), s[i - 1])]

\* all(series > 0): a comparison with nan is False.
AllPositive(s) == \A i \in 1..Len(s) : XGt(s[i], Num(0))

(***************************************************************************)
(* Text.  A string is modelled as its lines, a line as its words, a word   *)
(* as a record: literal prefix, ticker characters, formatted number,       *)
(* literal suffix.  str.split() is then the concatenation of the lines.    *)
(***************************************************************************)
LitLen ==
    [w \in {"", ":", "%", "$", "(", "%)",
            "Adjusted", "Value:", "Market", "Cap:", "Cap", "Error", "fetching",
            "data", "for", "calculating", "value", "evaluating", "stock",
            "Hartz,", "Millsap,", "Hill", "intrinsic", "Hempton", "Nutty",
            "'Pretax", "Income'", "'Cash", "And", "Cash", "Equivalents'",
            "'Total", "Debt'", "'marketCap'", "'Net", "'bookValue'",
            "'sharesOutstanding'", "'currentPrice'", "'trailingEps'",
            "'Free", "Flow'", "division", "by", "zero",
            "No", "Losses:", "Yes", "Debt", "<", "100%", "Equity:", "Price",
            "Book", "Earnings", "Yield", ">", "2x", "Bond", "Yield:",
            "Expected", "Returns:", "Intrinsic", "Comparison:", "Undervalued",
            "Overvalued", "Fairly", "Valued", "to", "10x", "Revenue", "Ratio:",
            "Evaluation:", "Bad", "Look", "(>10)", "Acceptable", "(<=10)",
            "Current:", "Change:", "unavailable", "Data"} |->
        CASE w = "" -> 0
          [] w \in {":", "%", "$", "(", "<", ">"} -> 1
          [] w \in {"%)", "by", "No", "2x", "to"} -> 2
          [] w \in {"for", "And", "Yes", "Cap", "10x", "Bad"} -> 3
          [] w \in {"Cap:", "data", "Hill", "Cash", "'Net", "zero", "Debt",
                    "100%", "Book", "Bond", "Look", "Data"} -> 4
          [] w \in {"Error", "value", "stock", "Nutty", "'Cash", "Debt'",
                    "'Free", "Flow'", "Price", "Yield", "(>10)"} -> 5
          [] w \in {"Value:", "Market", "Hartz,", "'Total", "Yield:", "Fairly",
                    "Valued", "Ratio:", "(<=10)"} -> 6
          [] w \in {"Hempton", "'Pretax", "Income'", "Losses:", "Equity:",
                    "Revenue", "Change:"} -> 7
          [] w \in {"Adjusted", "fetching", "Millsap,", "division", "Earnings",
                    "Expected", "Returns:", "Current:"} -> 8
          [] w \in {"intrinsic", "Intrinsic"} -> 9
          [] w \in {"evaluating", "Overvalued", "Acceptable"} -> 10
          [] w \in {"calculating", "'marketCap'", "'bookValue'", "Comparison:",
                    "Undervalued", "Evaluation:", "unavailable"} -> 11
          [] w = "Equivalents'" -> 12
          [] w = "'trailingEps'" -> 13
          [] w = "'currentPrice'" -> 14
          [] w = "'sharesOutstanding'" -> 19]

\* a literal word
Lit(s) == [pre |-> s, sym |-> <<>>, fmt |-> "", val |-> Num(0), neg |-> FALSE, suf |-> ""]

\* f"{symbol}" followed directly by suf
SymWord(symbol, suf) ==
    [pre |-> "", sym |-> symbol, fmt |-> "", val |-> Num(0), neg |-> FALSE, suf |-> suf]

\* round(100 * x), ties to even, of a finite x
RoundCents(x) ==
    LET q == (100 * x[1]) \div x[2]
        r == (100 * x[1]) % x[2]
    IN  IF 2 * r < x[2] THEN q
        ELSE IF 2 * r > x[2] THEN q + 1
        ELSE IF q % 2 = 0 THEN q ELSE q + 1

\* f"{pre}{x:.2f}{suf}" (fmt ".2f") or f"{pre}{x:,.2f}{suf}" (fmt ",.2f"):
\* the value is kept to two decimals, nan and inf are printed as such, and a
\* negative value keeps its sign when it rounds to zero.
FormatWord(pre, fmt, x, suf) ==
    [pre |-> pre, sym |-> <<>>, fmt |-> fmt,
     val |-> IF IsFinite(x) THEN Norm(RoundCents(x), 100) ELSE x,
     neg |-> x[1] < 0, suf |-> suf]

RECURSIVE Digits(_)
Digits(n) == IF n < 10 THEN 1 ELSE 1 + Digits(n \div 10)

\* len() of the formatted number of a word
NumberLen(w) ==
    IF w.fmt = "" THEN 0
    ELSE IF ~IsFinite(w.val) THEN (IF w.neg THEN 4 ELSE 3)
    ELSE LET whole == Abs(w.val[1]) \div w.val[2]
             d == Digits(whole)
         IN  (IF w.neg THEN 1 ELSE 0) + d
             + (IF w.fmt = ",.2f" THEN (d - 1) \div 3 ELSE 0) + 3

WordLen(w) == LitLen[w.pre] + Len(w.sym) + NumberLen(w) + LitLen[w.suf]

\* a one-line string of literal words
Words(ss) == [i \in 1..Len(ss) |-> Lit(ss[i])]

RECURSIVE Flatten(_)
Flatten(lines) == IF lines = <<>> THEN <<>> ELSE Head(lines) \o Flatten(Tail(lines))

RECURSIVE wrap_loop(_, _, _, _, _)
wrap_loop(words, width, lines, current_line, current_length) ==
    IF words = <<>>
    THEN IF current_line # <<>> THEN Append(lines, current_line) ELSE lines
    ELSE LET word == Head(words)
         IN  IF current_length + WordLen(word) <= width
             THEN wrap_loop(Tail(words), width, lines,
                            Append(current_line, word),
                            current_length + WordLen(word) + 1)
             ELSE wrap_loop(Tail(words), width, Append(lines, current_line),
                            <<word>>, WordLen(word) + 1)

wrap_text(text, width) == wrap_loop(Flatten(text), width, <<>>, <<>>, 0)

(***************************************************************************)
(* Snapshots.  fetch_stock_data returns a dict of three statements and the *)
(* info dict, or None.  A statement is a function from its line items to   *)
(* their series, most recent period first; 'cashflow' is stored            *)
(* transposed, its line items being columns.                               *)
(***************************************************************************)
None == [none |-> TRUE]

\* the column labels of a statement as yfinance delivers it: period ends
PeriodColumns == {"2023-12-31", "2022-12-31", "2021-12-31", "2020-12-31"}

\* DataFrame.get(key, default)[0]: get looks key up among the COLUMNS, which
\* for balance_sheet are the period ends, so a line-item name is never found.
DataFrameGetFirst(frame, key, default) ==
    IF key \in PeriodColumns
    THEN IF DOMAIN frame = {} THEN default
         ELSE (frame[CHOOSE item \in DOMAIN frame : TRUE])[1]
    ELSE default[1]

\* dict.get(key, default)
DictGet(d, key, default) == IF key \in DOMAIN d THEN d[key] ELSE default

\* what a try block ends with: a (result_text, tag) pair or an exception
Returned(text, tag) == [raised |-> FALSE, text |-> text, tag |-> tag, msg |-> <<>>]

Raise(msg) == [raised |-> TRUE, text |-> <<>>, tag |-> "", msg |-> msg]

\* str(KeyError(key))
KeyError(key) ==
    Raise(CASE key = "Pretax Income" -> Words(<<"'Pretax", "Income'">>)
            [] key = "Cash And Cash Equivalents" ->
                   Words(<<"'Cash", "And", "Cash", "Equivalents'">>)
            [] key = "Total Debt" -> Words(<<"'Total", "Debt'">>)
            [] key = "marketCap" -> Words(<<"'marketCap'">>)
            [] key = "Net Income" -> Words(<<"'Net", "Income'">>)
            [] key = "bookValue" -> Words(<<"'bookValue'">>)
            [] key = "sharesOutstanding" -> Words(<<"'sharesOutstanding'">>)
            [] key = "currentPrice" -> Words(<<"'currentPrice'">>)
            [] key = "trailingEps" -> Words(<<"'trailingEps'">>)
            [] key = "Free Cash Flow" -> Words(<<"'Free", "Cash", "Flow'">>))

\* str(ZeroDivisionError()) of a Python-level division
ZeroDivisionError == Raise(Words(<<"division", "by", "zero">>))

\* the (result_text, tag) a method stores for a symbol
Result(text, tag) == [text |-> text, tag |-> tag]

\* f"Error fetching data for {symbol}", 'red'               (the `if not data` arm)
FetchErrorResult(symbol) ==
    Result(<<Words(<<"Error", "fetching", "data", "for">>) \o <<SymWord(symbol, "")>>>>,
           "red")

\* f"{what} for {symbol}: {e}", 'red'                       (the except arm)
ExceptResult(what, symbol, e) ==
    Result(<<Words(what) \o <<Lit("for"), SymWord(symbol, ":")>> \o e.msg>>, "red")

YesNo(b) == Lit(IF b THEN "Yes" ELSE "No")

(***************************************************************************)
(* The five valuation methods: the try block of each (x_try), and the body *)
(* of the per-symbol loop around it (x_symbol).                            *)
(***************************************************************************)
\* variant: the tag is favourable when the adjusted value equals the market cap too
calculate_value_try_ge(data) ==
    LET income_statement == data.financials
        balance_sheet == data.balance_sheet
    IN  IF "Pretax Income" \notin DOMAIN income_statement THEN KeyError("Pretax Income")
        ELSE IF "Cash And Cash Equivalents" \notin DOMAIN balance_sheet
        THEN KeyError("Cash And Cash Equivalents")
        ELSE IF "Total Debt" \notin DOMAIN balance_sheet THEN KeyError("Total Debt")
        ELSE IF "marketCap" \notin DOMAIN data.info THEN KeyError("marketCap")
        ELSE
        LET pre_tax_income == SeriesHead(income_statement["Pretax Income"], 5)
            average_pre_tax_income == SeriesMean(pre_tax_income)
            value_10x_pre_tax_income == XMul(average_pre_tax_income, Num(10))
            adjusted_value ==
                XSub(XAdd(value_10x_pre_tax_income,
                          balance_sheet["Cash And Cash Equivalents"][1]),
                     balance_sheet["Total Debt"][1])
            market_cap == data.info["marketCap"]
            tag == IF XGe(adjusted_value, market_cap) THEN "green" ELSE "red"
            result_text ==
                << Words(<<"Adjusted", "Value:">>),
                   <<FormatWord("", ",.2f", adjusted_value, "")>>,
                   <<>>,
                   Words(<<"Market", "Cap:">>),
                   <<FormatWord("", ",.2f", market_cap, "")>> >>
        IN  Returned(result_text, tag)

calculate_value_try(data) ==
    LET income_statement == data.financials
        balance_sheet == data.balance_sheet
    IN  IF "Pretax Income" \notin DOMAIN income_statement THEN KeyError("Pretax Income")
        ELSE IF "Cash And Cash Equivalents" \notin DOMAIN balance_sheet
        THEN KeyError("Cash And Cash Equivalents")
        ELSE IF "Total Debt" \notin DOMAIN balance_sheet THEN KeyError("Total Debt")
        ELSE IF "marketCap" \notin DOMAIN data.info THEN KeyError("marketCap")
        ELSE
        LET pre_tax_income == SeriesHead(income_statement["Pretax Income"], 5)
            average_pre_tax_income == SeriesMean(pre_tax_income)
            value_10x_pre_tax_income == XMul(average_pre_tax_income, Num(10))
            adjusted_value ==
                XSub(XAdd(value_10x_pre_tax_income,
                          balance_sheet["Cash And Cash Equivalents"][1]),
                     balance_sheet["Total Debt"][1])
            market_cap == data.info["marketCap"]
            tag == IF XGt(adjusted_value, market_cap) THEN "green" ELSE "red"
            result_text ==
                << Words(<<"Adjusted", "Value:">>),
                   <<FormatWord("", ",.2f", adjusted_value, "")>>,
                   <<>>,
                   Words(<<"Market", "Cap:">>),
                   <<FormatWord("", ",.2f", market_cap, "")>> >>
        IN  Returned(result_text, tag)

calculate_value_symbol(symbol, data) ==
    IF data = None THEN FetchErrorResult(symbol)
    ELSE LET r == calculate_value_try(data)
         IN  IF r.raised
             THEN ExceptResult(<<"Error", "calculating", "value">>, symbol, r)
             ELSE Result(r.text, r.tag)

evaluate_stock_try(data) ==
    LET financials == data.financials
        balance_sheet == data.balance_sheet
        info == data.info
    IN  IF "Net Income" \notin DOMAIN financials THEN KeyError("Net Income")
        ELSE
        LET net_income == financials["Net Income"]
            no_losses == AllPositive(SeriesHead(net_income, 5))
            short_term_debt ==
                IF "Short Long Term Debt" \in DOMAIN balance_sheet
                THEN balance_sheet["Short Long Term Debt"][1] ELSE Num(0)
            long_term_debt ==
                IF "Long Term Debt" \in DOMAIN balance_sheet
                THEN balance_sheet["Long Term Debt"][1] ELSE Num(0)
            total_debt == XAdd(short_term_debt, long_term_debt)
        IN  IF "bookValue" \notin DOMAIN info THEN KeyError("bookValue")
            ELSE IF "sharesOutstanding" \notin DOMAIN info
            THEN KeyError("sharesOutstanding")
            ELSE
            LET book_value == XMul(info["bookValue"], info["sharesOutstanding"])
            IN  IF book_value = Num(0) THEN ZeroDivisionError
                ELSE IF "currentPrice" \notin DOMAIN info THEN KeyError("currentPrice")
                ELSE IF info["bookValue"] = Num(0) THEN ZeroDivisionError
                ELSE IF "trailingEps" \notin DOMAIN info THEN KeyError("trailingEps")
                ELSE IF info["currentPrice"] = Num(0) THEN ZeroDivisionError
                ELSE
                LET debt_to_equity == NpDiv(total_debt, book_value)
                    current_price == info["currentPrice"]
                    book_value_per_share == info["bookValue"]
                    price_to_book == NpDiv(current_price, book_value_per_share)
                    eps == info["trailingEps"]
                    earnings_yield == NpDiv(eps, current_price)
                    bond_yield == <<9, 100>>
                    meets_bond_yield ==
                        XGt(earnings_yield, XMul(Num(2), bond_yield))
                    result_text ==
                        << <<Lit("No"), Lit("Losses:"), YesNo(no_losses)>>,
                           Words(<<"Debt", "<", "100%", "Equity:">>)
                               \o <<YesNo(XLt(debt_to_equity, Num(1)))>>,
                           Words(<<"Price", "<", "Book", "Value:">>)
                               \o <<YesNo(XLt(price_to_book, Num(1)))>>,
                           Words(<<"Earnings", "Yield", ">", "2x", "Bond", "Yield:">>)
                               \o <<YesNo(meets_bond_yield)>> >>
                    tag ==
                        IF no_losses /\ XLt(debt_to_equity, Num(1))
                           /\ XLt(price_to_book, Num(1)) /\ meets_bond_yield
                        THEN "green" ELSE "red"
                IN  Returned(result_text, tag)

evaluate_stock_symbol(symbol, data) ==
    IF data = None THEN FetchErrorResult(symbol)
    ELSE LET r == evaluate_stock_try(data)
         IN  IF r.raised
             THEN ExceptResult(<<"Error", "evaluating", "stock">>, symbol, r)
             ELSE Result(r.text, r.tag)

calculate_hartz_millsap_hill_try(data) ==
    LET info == data.info
        roe == DictGet(info, "returnOnEquity", Num(0))
        book_value_per_share == DictGet(info, "bookValue", Num(0))
        price_to_book_value ==
            IF Truthy(book_value_per_share)
            THEN NpDiv(DictGet(info, "currentPrice", Num(0)), book_value_per_share)
            ELSE Num(0)
        expected_returns ==
            IF Truthy(price_to_book_value) THEN NpDiv(roe, price_to_book_value)
            ELSE Num(0)
        tag == IF XGe(expected_returns, <<7, 100>>) THEN "green" ELSE "red"
        result_text ==
            << <<Lit("Expected"),  Lit("Returns:"),
                 FormatWord("", ".2f", XMul(expected_returns, Num(100)), "%")>> >>
    IN  Returned(result_text, tag)

calculate_hartz_millsap_hill_symbol(symbol, data) ==
    IF data = None THEN FetchErrorResult(symbol)
    ELSE LET r == calculate_hartz_millsap_hill_try(data)
         IN  IF r.raised
             THEN ExceptResult(<<"Error", "calculating", "Hartz,", "Millsap,", "Hill">>,
                               symbol, r)
             ELSE Result(r.text, r.tag)

calculate_intrinsic_value_try(data) ==
    LET cash_flow == data.cashflow
        balance_sheet == data.balance_sheet
    IN  IF "Free Cash Flow" \notin DOMAIN cash_flow THEN KeyError("Free Cash Flow")
        ELSE
        LET free_cash_flow == cash_flow["Free Cash Flow"]
            fcf_growth_rate == SeriesMean(PctChange(free_cash_flow))
            future_fcf ==
                XMul(free_cash_flow[Len(free_cash_flow)],
                     XPow(XAdd(Num(1), fcf_growth_rate), 10))
            cash_and_securities ==
                DataFrameGetFirst(balance_sheet, "Cash And Cash Equivalents", <<Num(0)>>)
            other_short_term_investments ==
                DataFrameGetFirst(balance_sheet, "Other Short Term Investments", <<Num(0)>>)
            intrinsic_value ==
                XAdd(XAdd(future_fcf, cash_and_securities), other_short_term_investments)
        IN  IF "marketCap" \notin DOMAIN data.info THEN KeyError("marketCap")
            ELSE
            LET market_cap == data.info["marketCap"]
                tag == IF XGt(intrinsic_value, market_cap) THEN "green"
                       ELSE IF XLt(intrinsic_value, market_cap) THEN "red"
                       ELSE "black"
                result_text ==
                    << <<Lit("Intrinsic"), Lit("Value:"),
                         FormatWord("", ",.2f", intrinsic_value, "")>>,
                       <<Lit("Market"), Lit("Cap:"),
                         FormatWord("", ",.2f", market_cap, "")>>,
                       <<Lit("Comparison:")>>
                           \o (IF XGt(intrinsic_value, market_cap)
                               THEN Words(<<"Undervalued">>)
                               ELSE IF XLt(intrinsic_value, market_cap)
                               THEN Words(<<"Overvalued">>)
                               ELSE Words(<<"Fairly", "Valued">>)) >>
            IN  Returned(result_text, tag)

calculate_intrinsic_value_symbol(symbol, data) ==
    IF data = None THEN FetchErrorResult(symbol)
    ELSE LET r == calculate_intrinsic_value_try(data)
         IN  IF r.raised
             THEN ExceptResult(<<"Error", "calculating", "intrinsic", "value">>, symbol, r)
             ELSE Result(r.text, r.tag)

calculate_hempton_nutty_try(data) ==
    LET info == data.info
        market_cap == DictGet(info, "marketCap", Num(0))
        revenue == XMul(DictGet(info, "totalRevenue", Num(0)), Num(10))
        ratio == IF Truthy(revenue) THEN NpDiv(market_cap, revenue) ELSE Num(0)
        tag == IF XLe(ratio, Num(10)) THEN "green" ELSE "red"
        result_text ==
            << Words(<<"Market", "Cap", "to", "10x", "Revenue">>)
                   \o <<Lit("Ratio:"), FormatWord("", ".2f", ratio, "")>>,
               <<Lit("Evaluation:")>>
                   \o (IF XGt(ratio, Num(10)) THEN Words(<<"Bad", "Look", "(>10)">>)
                       ELSE Words(<<"Acceptable", "(<=10)">>)) >>
    IN  Returned(result_text, tag)

calculate_hempton_nutty_symbol(symbol, data) ==
    IF data = None THEN FetchErrorResult(symbol)
    ELSE LET r == calculate_hempton_nutty_try(data)
         IN  IF r.raised
             THEN ExceptResult(<<"Error", "calculating", "Hempton", "Nutty">>, symbol, r)
             ELSE Result(r.text, r.tag)

\* setup_gui's and run_all_methods' method tables, in column order
Methods ==
    <<"calculate_value", "evaluate_stock", "calculate_hartz_millsap_hill",
      "calculate_intrinsic_value", "calculate_hempton_nutty">>

MethodNames == {Methods[i] : i \in 1..Len(Methods)}

\* one pass of the `for symbol in symbols` loop of method_function
MethodSymbol(method, symbol, data) ==
    CASE method = "calculate_value" -> calculate_value_symbol(symbol, data)
      [] method = "evaluate_stock" -> evaluate_stock_symbol(symbol, data)
      [] method = "calculate_hartz_millsap_hill" ->
             calculate_hartz_millsap_hill_symbol(symbol, data)
      [] method = "calculate_intrinsic_value" ->
             calculate_intrinsic_value_symbol(symbol, data)
      [] method = "calculate_hempton_nutty" ->
             calculate_hempton_nutty_symbol(symbol, data)

(***************************************************************************)
(* Input.  The text of ticker_entry is a sequence of characters.           *)
(***************************************************************************)
\* str.upper() on one character
UpperChar(c) == CASE c = "a" -> "A" [] c = "b" -> "B" [] OTHER -> c

IsSpace(c) == c = " "

IsAlnumChar(c) == c \in {"a", "b", "A", "B", "1"}

RECURSIVE LStrip(_)
LStrip(s) == IF s # <<>> /\ IsSpace(Head(s)) THEN LStrip(Tail(s)) ELSE s

RECURSIVE RStrip(_)
RStrip(s) ==
    IF s # <<>> /\ IsSpace(s[Len(s)]) THEN RStrip(SubSeq(s, 1, Len(s) - 1)) ELSE s

\* str.strip()
Strip(s) == RStrip(LStrip(s))

\* str.upper()
Upper(s) == [i \in 1..Len(s) |-> UpperChar(s[i])]

\* str.isalnum(): every character alphanumeric, and at least one character
IsAlnum(s) == s # <<>> /\ \A i \in 1..Len(s) : IsAlnumChar(s[i])

\* str.split(','): the pieces between the commas, empty pieces included
RECURSIVE split_loop(_, _, _)
split_loop(s, pieces, piece) ==
    IF s = <<>> THEN Append(pieces, piece)
    ELSE IF Head(s) = "," THEN split_loop(Tail(s), Append(pieces, piece), <<>>)
    ELSE split_loop(Tail(s), pieces, Append(piece, Head(s)))

Split(s) == split_loop(s, <<>>, <<>>)

\* variant: the invalid entries are dropped and the valid ones analysed
validate_symbols_keep_valid(symbols) ==
    LET pieces == Split(symbols)
        kept == SelectSeq(pieces, LAMBDA symbol : Strip(symbol) # <<>>)
        ticker_symbols == [i \in 1..Len(kept) |-> Upper(Strip(kept[i]))]
    IN  SelectSeq(ticker_symbols, IsAlnum)

validate_symbols(symbols) ==
    LET pieces == Split(symbols)
        kept == SelectSeq(pieces, LAMBDA symbol : Strip(symbol) # <<>>)
        ticker_symbols == [i \in 1..Len(kept) |-> Upper(Strip(kept[i]))]
        invalid_symbols == SelectSeq(ticker_symbols, LAMBDA symbol : ~IsAlnum(symbol))
    IN  IF invalid_symbols # <<>> THEN <<>> ELSE ticker_symbols

(***************************************************************************)
(* What the data provider (yfinance) can answer.  These are inputs of the  *)
(* program: a handful of snapshots that between them make every formula    *)
(* pass, fail, tie, miss a field and meet a zero divisor.                  *)
(***************************************************************************)
Series(ints) == [i \in 1..Len(ints) |-> Num(ints[i])]

NoItems == [k \in {} |-> <<>>]

\* every method finds its fields and gives a favourable verdict
SnapFavourable ==
    [financials |-> [k \in {"Pretax Income", "Net Income"} |->
                        IF k = "Pretax Income" THEN Series(<<5, 5>>) ELSE Series(<<1, 2>>)],
     balance_sheet |-> [k \in {"Cash And Cash Equivalents", "Total Debt", "Long Term Debt"} |->
                        CASE k = "Cash And Cash Equivalents" -> Series(<<10, 1>>)
                          [] k = "Total Debt" -> Series(<<5, 1>>)
                          [] k = "Long Term Debt" -> Series(<<2, 1>>)],
     info |-> [k \in {"marketCap", "bookValue", "sharesOutstanding", "currentPrice",
                      "trailingEps", "returnOnEquity", "totalRevenue"} |->
                        CASE k = "marketCap" -> Num(40)
                          [] k = "bookValue" -> Num(10)
                          [] k = "sharesOutstanding" -> Num(4)
                          [] k = "currentPrice" -> Num(5)
                          [] k = "trailingEps" -> Num(1)
                          [] k = "returnOnEquity" -> <<1, 10>>
                          [] k = "totalRevenue" -> Num(1)],
     cashflow |-> [k \in {"Free Cash Flow"} |-> Series(<<10, 20>>)]]

\* every method finds its fields and gives an unfavourable verdict
SnapUnfavourable ==
    [financials |-> [k \in {"Pretax Income", "Net Income"} |->
                        IF k = "Pretax Income" THEN Series(<<1>>) ELSE Series(<<-1>>)],
     balance_sheet |-> [k \in {"Cash And Cash Equivalents", "Total Debt",
                               "Short Long Term Debt", "Long Term Debt"} |->
                        CASE k = "Cash And Cash Equivalents" -> Series(<<0>>)
                          [] k = "Total Debt" -> Series(<<5>>)
                          [] k = "Short Long Term Debt" -> Series(<<1>>)
                          [] k = "Long Term Debt" -> Series(<<3>>)],
     info |-> [k \in {"marketCap", "bookValue", "sharesOutstanding", "currentPrice",
                      "trailingEps", "returnOnEquity", "totalRevenue"} |->
                        CASE k = "marketCap" -> Num(2000)
                          [] k = "bookValue" -> Num(1)
                          [] k = "sharesOutstanding" -> Num(1)
                          [] k = "currentPrice" -> Num(2)
                          [] k = "trailingEps" -> Num(0)
                          [] k = "returnOnEquity" -> <<1, 100>>
                          [] k = "totalRevenue" -> Num(1)],
     cashflow |-> [k \in {"Free Cash Flow"} |-> Series(<<4, 2>>)]]

\* the values on both sides of every comparison are equal
SnapTie ==
    [financials |-> [k \in {"Pretax Income", "Net Income"} |->
                        IF k = "Pretax Income" THEN Series(<<0>>) ELSE Series(<<1>>)],
     balance_sheet |-> [k \in {"Cash And Cash Equivalents", "Total Debt"} |->
                        IF k = "Total Debt" THEN Series(<<0>>) ELSE Series(<<2>>)],
     info |-> [k \in {"marketCap", "bookValue", "sharesOutstanding", "currentPrice",
                      "trailingEps", "returnOnEquity", "totalRevenue"} |->
                        CASE k = "marketCap" -> Num(2)
                          [] k = "bookValue" -> Num(1)
                          [] k = "sharesOutstanding" -> Num(1)
                          [] k = "currentPrice" -> Num(1)
                          [] k = "trailingEps" -> <<18, 100>>
                          [] k = "returnOnEquity" -> <<7, 100>>
                          [] k = "totalRevenue" -> <<2, 100>>],
     cashflow |-> [k \in {"Free Cash Flow"} |-> Series(<<2, 2>>)]]

\* what yfinance answers for a ticker it has nothing on: empty statements, empty info
SnapEmpty ==
    [financials |-> NoItems, balance_sheet |-> NoItems,
     info |-> [k \in {} |-> Num(0)], cashflow |-> NoItems]

\* every divisor a formula uses is zero
SnapZero ==
    [financials |-> [k \in {"Pretax Income", "Net Income"} |-> Series(<<1>>)],
     balance_sheet |-> [k \in {"Cash And Cash Equivalents", "Total Debt"} |-> Series(<<1>>)],
     info |-> [k \in {"marketCap", "bookValue", "sharesOutstanding", "currentPrice",
                      "trailingEps", "returnOnEquity", "totalRevenue"} |->
                        CASE k = "marketCap" -> Num(5)
                          [] k = "sharesOutstanding" -> Num(1)
                          [] k = "trailingEps" -> Num(1)
                          [] k = "returnOnEquity" -> <<1, 10>>
                          [] OTHER -> Num(0)],
     cashflow |-> [k \in {"Free Cash Flow"} |-> Series(<<0, 3>>)]]

\* the financial statements a pretax-income series, cash, debt and market cap make
BuffettSnapshot(pretax, cash, debt, cap) ==
    [SnapFavourable EXCEPT
        !.financials = [k \in {"Pretax Income"} |-> pretax],
        !.balance_sheet = [k \in {"Cash And Cash Equivalents", "Total Debt"} |->
                              IF k = "Total Debt" THEN <<Num(debt), Num(debt + 7)>>
                              ELSE <<Num(cash), Num(cash + 9)>>],
        !.info = [k \in {"marketCap"} |-> Num(cap)]]

\* the longest pretax-income series the provider answers with
MaxSeriesLen == 6

PretaxValues == {Num(-2), Num(3), NaN}

RECURSIVE SeriesUpTo(_)
SeriesUpTo(n) ==
    IF n = 0 THEN {<<>>}
    ELSE LET shorter == SeriesUpTo(n - 1)
         IN  shorter \cup {Append(s, v) : s \in {t \in shorter : Len(t) = n - 1},
                                          v \in PretaxValues}

\* pretax-income series: every series of up to two values, and one series of
\* every length up to MaxSeriesLen whose older values would change the mean
PretaxSeries ==
    (SeriesUpTo(2) \ {<<>>})
        \cup {[i \in 1..n |-> IF i <= 5 THEN Num(3) ELSE Num(90)] : n \in 3..MaxSeriesLen}
        \cup {<<Num(1), Num(1), Num(2)>>}

BuffettSnapshots ==
    {BuffettSnapshot(pretax, cash, 1, cap) :
        pretax \in PretaxSeries, cash \in {1, 6}, cap \in {29, 30, 31}}
    \cup {[BuffettSnapshot(Series(<<3>>), 1, 1, 30) EXCEPT
              !.info = [k \in {} |-> Num(0)]],
          [BuffettSnapshot(Series(<<3>>), 1, 1, 30) EXCEPT
              !.balance_sheet = [k \in {"Total Debt"} |-> Series(<<1>>)]]}

\* stock.history(period): None when the history is empty or the call raised,
\* else the first Open and the last Close
PriceUnavailable == [close |-> NaN, open |-> NaN, available |-> FALSE]

PriceUp == [close |-> <<21, 2>>, open |-> Num(10), available |-> TRUE]

(***************************************************************************)
(* The application state.                                                  *)
(***************************************************************************)
VARIABLES
    data_cache,       \* self.data_cache: symbol -> snapshot
    fetch_lru,        \* the lru_cache around fetch_stock_data, least recent first
    result_queue,     \* self.result_queue
    result_tree,      \* the rows of self.result_tree, top to bottom
    poll_timers,      \* pending root.after(100, self.process_queue) callbacks
    colorblind_mode,  \* self.colorblind_mode
    dark_mode,        \* self.dark_mode
    requests,         \* the button clicks that passed validation, in click order
    calls,            \* the method_function(symbols, output=True) calls in progress
    last_write,       \* history: symbol -> the snapshot most recently assigned to data_cache[symbol]
    script,           \* the clicks the user still makes, in order
    scenario          \* names what the user types and what the provider answers in this run

vars ==
    <<data_cache, fetch_lru, result_queue, result_tree, poll_timers, colorblind_mode,
      dark_mode, requests, calls, last_write, script, scenario>>

CACHE_SIZE == 128

MAX_WORKERS == 5

EmptyDict == [k \in {} |-> None]

\* d[k] = v on a dict
DictPut(d, k, v) == [x \in DOMAIN d \cup {k} |-> IF x = k THEN v ELSE d[x]]

\* functools.lru_cache: the entry of a key, moved to the most-recent end by a hit
LruHit(cache, key) == \E i \in 1..Len(cache) : cache[i].key = key

LruValue(cache, key) == cache[CHOOSE i \in 1..Len(cache) : cache[i].key = key].value

LruTouch(cache, key) ==
    SelectSeq(cache, LAMBDA entry : entry.key # key)
        \o <<[key |-> key, value |-> LruValue(cache, key)]>>

\* after the wrapped call returned: nothing when another thread stored the key in
\* the meantime, else the result is added, evicting the oldest entry of a full cache
LruStore(cache, key, value) ==
    IF LruHit(cache, key) THEN cache
    ELSE IF Len(cache) >= CACHE_SIZE
    THEN Append(Tail(cache), [key |-> key, value |-> value])
    ELSE Append(cache, [key |-> key, value |-> value])

\* variant: a snapshot is written only when the symbol has none yet
CacheWriteIfAbsent(cache, symbol, data) ==
    IF symbol \in DOMAIN cache THEN cache ELSE DictPut(cache, symbol, data)

\* self.data_cache[symbol] = data
CacheWrite(cache, symbol, data) == DictPut(cache, symbol, data)

\* method_name of run_all_methods' table, and the column of each method
MethodLabel(method) ==
    CASE method = "calculate_value" -> "Buffett"
      [] method = "evaluate_stock" -> "Brandes"
      [] method = "calculate_hartz_millsap_hill" -> "Hartz, Millsap, Hill"
      [] method = "calculate_intrinsic_value" -> "Pabrai"
      [] method = "calculate_hempton_nutty" -> "Hempton Nutty"

column_index(method) ==
    CASE method = "calculate_value" -> 1
      [] method = "evaluate_stock" -> 2
      [] method = "calculate_hartz_millsap_hill" -> 3
      [] method = "calculate_intrinsic_value" -> 4
      [] method = "calculate_hempton_nutty" -> 5
      [] OTHER -> 0

\* a request is the work one accepted click starts.  kind "single" runs in the
\* button handler, kind "all" in run_methods on the executor.
\*   pc: "queued" (submitted, no worker yet), "methods" (method calls running),
\*       "clear" (about to put 'clear'), "rows" (putting row idx), "done"
\*   results: symbol -> method label -> (result_text, tag)
\*   alone (history): no other request was in flight at any time during this one
\*   cleared (history): 0 until the request puts its 'clear', then the number of
\*       'clear' puts so far, this one included
Active(r) == requests[r].pc # "done"

UiBusy == \E r \in 1..Len(requests) : requests[r].kind = "single" /\ Active(r)

NewRequest(kind, method, symbols, pc) ==
    [kind |-> kind, method |-> method, symbols |-> symbols, pc |-> pc, idx |-> 1,
     results |-> [s \in {symbols[i] : i \in 1..Len(symbols)} |-> [l \in {} |-> None]],
     alone |-> \A r \in 1..Len(requests) : ~Active(r),
     cleared |-> 0]

Submit(request) ==
    Append([r \in 1..Len(requests) |->
                IF Active(r) THEN [requests[r] EXCEPT !.alone = FALSE] ELSE requests[r]],
           request)

\* a call is one method_function(symbols, output=True) in progress
\*   pc: "lookup" (entering fetch_stock_data for symbols[idx]), "query" (asking the
\*       provider), "return" (fetch_stock_data returning data), "done"
\*   used (history): symbol -> the data the loop body got for it
\*   output: the argument of that name, True at both call sites
\* variant: the call sites pass output=False
NewCallWithoutOutput ==
    [idx |-> 1, pc |-> "lookup", data |-> None, results |-> EmptyDict, used |-> EmptyDict,
     output |-> FALSE]

NewCall ==
    [idx |-> 1, pc |-> "lookup", data |-> None, results |-> EmptyDict, used |-> EmptyDict,
     output |-> TRUE]

CallsOf(r) == {c \in DOMAIN calls : c[1] = r}

\* variant: the loop is left at the first symbol whose data could not be fetched
LoopBodyStopAtFailure(call, method, symbols, data) ==
    LET symbol == symbols[call.idx]
    IN  IF data = None
        THEN [call EXCEPT !.data = None, !.pc = "done"]
        ELSE [call EXCEPT
                 !.results = DictPut(@, symbol, MethodSymbol(method, symbol, data)),
                 !.used = DictPut(@, symbol, data),
                 !.data = None,
                 !.idx = @ + 1,
                 !.pc = IF call.idx = Len(symbols) THEN "done" ELSE "lookup"]

\* the body of `for symbol in symbols` once data is known, and the loop's advance;
\* the call is done when the loop ends
LoopBody(call, method, symbols, data) ==
    LET symbol == symbols[call.idx]
    IN  [call EXCEPT
            !.results = DictPut(@, symbol, MethodSymbol(method, symbol, data)),
            !.used = DictPut(@, symbol, data),
            !.data = None,
            !.idx = @ + 1,
            !.pc = IF call.idx = Len(symbols) THEN "done" ELSE "lookup"]

\* run_method's `results[symbol][method_name] = result` for a returned call, and for
\* a single-method request the `results` of run_analysis_method
StoreResults(request, method, method_results) ==
    [request EXCEPT
        !.results = [s \in DOMAIN @ |->
                        IF s \in DOMAIN method_results
                        THEN DictPut(@[s], MethodLabel(method), method_results[s])
                        ELSE @[s]],
        !.pc = IF request.kind = "single" THEN "clear" ELSE @]

(***************************************************************************)
(* Rows and messages.  A message and a row carry, as history, the request  *)
(* they come from.                                                         *)
(***************************************************************************)
EmptyText == <<>>

SymbolText(symbol) == <<<<SymWord(symbol, "")>>>>

\* the price column of a row
PriceText(price) ==
    IF price.available
    THEN LET current_price == price.close
             open_price == price.open
             price_change == XSub(current_price, open_price)
             price_change_percent == XMul(NpDiv(price_change, open_price), Num(100))
         IN  << <<Lit("Current:"), FormatWord("$", ".2f", current_price, "")>>,
                <<Lit("Change:"), FormatWord("$", ".2f", price_change, ""),
                  FormatWord("(", ".2f", price_change_percent, "%)")>> >>
    ELSE <<Words(<<"Price", "data", "unavailable">>)>>

Black7 == [i \in 1..7 |-> "black"]

\* the (values, tags) run_analysis_method puts for one symbol; Python's index k is
\* position k + 1 here
SingleRow(request, symbol, price) ==
    LET k == column_index(request.method)
        in_results == symbol \in DOMAIN request.results
        result == request.results[symbol][MethodLabel(request.method)]
    IN  [values |-> [i \in 1..7 |->
                        IF i = 7 THEN PriceText(price)
                        ELSE IF in_results /\ i = k + 1 THEN result.text
                        ELSE IF i = 1 THEN SymbolText(symbol)
                        ELSE EmptyText],
         tags |-> [i \in 1..7 |->
                        IF in_results /\ i = k + 1 /\ k \in {1, 3, 4} THEN result.tag
                        ELSE "black"]]

NoDataText == <<Words(<<"No", "Data">>)>>

\* the (values, tags) run_methods puts for one symbol
AllRow(request, symbol, price) ==
    [values |-> <<SymbolText(symbol)>>
                    \o [i \in 1..Len(Methods) |->
                           IF MethodLabel(Methods[i]) \in DOMAIN request.results[symbol]
                           THEN request.results[symbol][MethodLabel(Methods[i])].text
                           ELSE NoDataText]
                    \o <<PriceText(price)>>,
     tags |-> Black7]

ClearMessage(r) == [action |-> "clear", values |-> <<>>, tags |-> <<>>, req |-> r]

InsertMessage(r, row) ==
    [action |-> "insert", values |-> row.values, tags |-> row.tags, req |-> r]

\* variant: the Pabrai column is left out of the colour indices
row_color_two_columns(tags) ==
    IF \A i \in 1..Len(tags) : tags[i] = "black" THEN "black"
    ELSE LET color_indices == <<1, 3>>
             hits == {j \in 1..Len(color_indices) :
                         tags[color_indices[j] + 1] \in {"green", "red"}}
         IN  IF hits = {} THEN "black"
             ELSE tags[color_indices[CHOOSE j \in hits : \A h \in hits : j <= h] + 1]

\* the row colour process_queue derives from the tags of an insert message
row_color(tags) ==
    IF \A i \in 1..Len(tags) : tags[i] = "black" THEN "black"
    ELSE LET color_indices == <<1, 3, 4>>
             hits == {j \in 1..Len(color_indices) :
                         tags[color_indices[j] + 1] \in {"green", "red"}}
         IN  IF hits = {} THEN "black"
             ELSE tags[color_indices[CHOOSE j \in hits : \A h \in hits : j <= h] + 1]

\* variant: a row is inserted at the top of the table
HandleMessageInsertFirst(tree, message) ==
    IF message.action = "clear" THEN <<>>
    ELSE IF message.action = "insert"
    THEN <<[values |-> [i \in 1..Len(message.values) |->
                           wrap_text(message.values[i], 30)],
            tags |-> <<row_color(message.tags)>>,
            req |-> message.req]>> \o tree
    ELSE tree

\* one pass of the loop of process_queue
HandleMessage(tree, message) ==
    IF message.action = "clear" THEN <<>>
    ELSE IF message.action = "insert"
    THEN Append(tree,
                [values |-> [i \in 1..Len(message.values) |->
                                wrap_text(message.values[i], 30)],
                 tags |-> <<row_color(message.tags)>>,
                 req |-> message.req])
    ELSE tree

RECURSIVE Drain(_, _)
Drain(tree, messages) ==
    IF messages = <<>> THEN tree
    ELSE Drain(HandleMessage(tree, Head(messages)), Tail(messages))

\* the Treeview part of refresh_ui: every item is deleted and inserted again at
\* the end, with its values and tags
RECURSIVE refresh_loop(_, _)
refresh_loop(tree, n) ==
    IF n = 0 THEN tree
    ELSE refresh_loop(Append(Tail(tree), [Head(tree) EXCEPT !.values = @, !.tags = @]),
                      n - 1)

refresh_ui(tree) == refresh_loop(tree, Len(tree))

(***************************************************************************)
(* The UI thread: button handlers, the toggles, the queue poll.            *)
(***************************************************************************)
\* a method button: run_analysis_method up to the call of method_function, which
\* then runs in this same handler (Lookup, Query, Return, PutClear, PutRow below)
ClickMethod(method, text) ==
    /\ ~UiBusy
    /\ script # <<>> /\ Head(script) = "method"
    /\ script' = Tail(script)
    /\ LET symbols == validate_symbols(text)
           r == Len(requests) + 1
       IN  IF symbols = <<>>
           THEN UNCHANGED <<requests, calls>>
           ELSE /\ requests' = Submit(NewRequest("single", method, symbols, "methods"))
                /\ calls' = DictPut(calls, <<r, method>>, NewCall)
    /\ UNCHANGED <<data_cache, fetch_lru, result_queue, result_tree, poll_timers,
                   colorblind_mode, dark_mode, last_write, scenario>>

\* variant: a Run All click cancels the run_methods tasks no worker has taken yet
ClickRunAllCancelsPending(text) ==
    /\ ~UiBusy
    /\ script # <<>> /\ Head(script) = "all"
    /\ script' = Tail(script)
    /\ LET symbols == validate_symbols(text)
           kept == [r \in 1..Len(requests) |->
                       IF requests[r].pc = "queued"
                       THEN [requests[r] EXCEPT !.pc = "done"] ELSE requests[r]]
       IN  IF symbols = <<>>
           THEN UNCHANGED requests
           ELSE requests' = Append(kept, NewRequest("all", "", symbols, "queued"))
    /\ UNCHANGED <<data_cache, fetch_lru, result_queue, result_tree, poll_timers,
                   colorblind_mode, dark_mode, calls, last_write, scenario>>

\* the Run All button: run_all_methods, which hands run_methods to the executor
ClickRunAll(text) ==
    /\ ~UiBusy
    /\ script # <<>> /\ Head(script) = "all"
    /\ script' = Tail(script)
    /\ LET symbols == validate_symbols(text)
       IN  IF symbols = <<>>
           THEN UNCHANGED requests
           ELSE requests' = Submit(NewRequest("all", "", symbols, "queued"))
    /\ UNCHANGED <<data_cache, fetch_lru, result_queue, result_tree, poll_timers,
                   colorblind_mode, dark_mode, calls, last_write, scenario>>

\* the timer callback: drains the queue, then schedules itself again
ProcessQueue ==
    /\ ~UiBusy
    /\ poll_timers > 0
    /\ result_tree' = Drain(result_tree, result_queue)
    /\ result_queue' = <<>>
    /\ poll_timers' = (poll_timers - 1) + 1
    /\ UNCHANGED <<data_cache, fetch_lru, colorblind_mode, dark_mode, requests, calls,
                   last_write, script, scenario>>

ToggleColorblindMode ==
    /\ ~UiBusy
    /\ script # <<>> /\ Head(script) = "toggle"
    /\ script' = Tail(script)
    /\ colorblind_mode' = ~colorblind_mode
    /\ result_tree' = refresh_ui(result_tree)
    /\ UNCHANGED <<data_cache, fetch_lru, result_queue, poll_timers, dark_mode, requests,
                   calls, last_write, scenario>>

ToggleDarkMode ==
    /\ ~UiBusy
    /\ script # <<>> /\ Head(script) = "toggle"
    /\ script' = Tail(script)
    /\ dark_mode' = ~dark_mode
    /\ result_tree' = refresh_ui(result_tree)
    /\ UNCHANGED <<data_cache, fetch_lru, result_queue, poll_timers, colorblind_mode,
                   requests, calls, last_write, scenario>>

(***************************************************************************)
(* Steps of a request.  They run on the UI thread for kind "single" and on *)
(* pool threads for kind "all".                                            *)
(***************************************************************************)
\* a free executor worker takes the oldest submitted run_methods, which submits the
\* five run_method calls to a pool of its own
StartRunMethods(r) ==
    /\ requests[r].pc = "queued"
    /\ \A q \in 1..(r - 1) : requests[q].pc # "queued"
    /\ Cardinality({q \in 1..Len(requests) :
                       requests[q].kind = "all" /\ requests[q].pc \notin {"queued", "done"}})
           < MAX_WORKERS
    /\ requests' = [requests EXCEPT ![r].pc = "methods"]
    /\ calls' = [c \in DOMAIN calls \cup {<<r, m>> : m \in MethodNames} |->
                    IF c \in DOMAIN calls THEN calls[c] ELSE NewCall]
    /\ UNCHANGED <<data_cache, fetch_lru, result_queue, result_tree, poll_timers,
                   colorblind_mode, dark_mode, last_write, script, scenario>>

\* the `if not output` block of a method: 'clear', then for every symbol an insert of
\* six values with a dict {symbol: tag} in the place of the tags
OutputMessages(r, symbols, results) ==
    <<ClearMessage(r)>>
        \o [i \in 1..Len(symbols) |->
               [action |-> "insert",
                values |-> <<SymbolText(symbols[i]), results[symbols[i]].text,
                             EmptyText, EmptyText, EmptyText, EmptyText>>,
                tags |-> [s \in {symbols[i]} |-> results[symbols[i]].tag],
                req |-> r]]

\* a call that left the loop: the method puts its own messages when output is
\* false and returns, and run_method copies its results into the request
Finish(c, call) ==
    /\ IF call.pc = "done"
       THEN requests' = [requests EXCEPT ![c[1]] = StoreResults(@, c[2], call.results)]
       ELSE UNCHANGED requests
    /\ result_queue' =
           IF call.pc = "done" /\ ~call.output
           THEN result_queue \o OutputMessages(c[1], requests[c[1]].symbols, call.results)
           ELSE result_queue

\* fetch_stock_data(symbol) is entered: a hit in the lru_cache returns its value at
\* once; else the function body runs, which returns data_cache[symbol] when it has
\* the symbol and asks the provider when it has not
Lookup(c) ==
    /\ calls[c].pc = "lookup"
    /\ LET symbols == requests[c[1]].symbols
           symbol == symbols[calls[c].idx]
       IN  IF LruHit(fetch_lru, symbol)
           THEN LET call == LoopBody(calls[c], c[2], symbols, LruValue(fetch_lru, symbol))
                IN  /\ fetch_lru' = LruTouch(fetch_lru, symbol)
                    /\ calls' = [calls EXCEPT ![c] = call]
                    /\ Finish(c, call)
           ELSE /\ calls' = [calls EXCEPT
                                ![c].pc = IF symbol \in DOMAIN data_cache
                                          THEN "return" ELSE "query",
                                ![c].data = IF symbol \in DOMAIN data_cache
                                            THEN data_cache[symbol] ELSE None]
                /\ UNCHANGED <<fetch_lru, requests, result_queue>>
    /\ UNCHANGED <<data_cache, result_tree, poll_timers, colorblind_mode,
                   dark_mode, last_write, script, scenario>>

\* the provider answers: a snapshot, which is written to data_cache, or an
\* exception, which is logged and shown and makes the function return None
Query(c, answer) ==
    /\ calls[c].pc = "query"
    /\ LET symbol == requests[c[1]].symbols[calls[c].idx]
       IN  IF answer = None
           THEN UNCHANGED <<data_cache, last_write>>
           ELSE /\ data_cache' = CacheWrite(data_cache, symbol, answer)
                /\ last_write' = DictPut(last_write, symbol, answer)
    /\ calls' = [calls EXCEPT ![c].pc = "return", ![c].data = answer]
    /\ UNCHANGED <<fetch_lru, result_queue, result_tree, poll_timers, colorblind_mode,
                   dark_mode, requests, script, scenario>>

\* fetch_stock_data returns: the lru_cache keeps the value unless the key got one in
\* the meantime, and the loop body goes on with the value returned
Return(c) ==
    /\ calls[c].pc = "return"
    /\ LET symbols == requests[c[1]].symbols
           symbol == symbols[calls[c].idx]
           call == LoopBody(calls[c], c[2], symbols, calls[c].data)
       IN  /\ fetch_lru' = LruStore(fetch_lru, symbol, calls[c].data)
           /\ calls' = [calls EXCEPT ![c] = call]
           /\ Finish(c, call)
    /\ UNCHANGED <<data_cache, result_tree, poll_timers, colorblind_mode,
                   dark_mode, last_write, script, scenario>>

\* variant: run_methods goes on as soon as one of the five calls has returned
JoinFirstCompleted(r) ==
    /\ requests[r].kind = "all"
    /\ requests[r].pc = "methods"
    /\ \E c \in CallsOf(r) : calls[c].pc = "done"
    /\ requests' = [requests EXCEPT ![r].pc = "clear"]
    /\ calls' = [c \in DOMAIN calls \ CallsOf(r) |-> calls[c]]
    /\ UNCHANGED <<data_cache, fetch_lru, result_queue, result_tree, poll_timers,
                   colorblind_mode, dark_mode, last_write, script, scenario>>

\* run_methods: the `with ThreadPoolExecutor()` block ends when all five calls returned
Join(r) ==
    /\ requests[r].kind = "all"
    /\ requests[r].pc = "methods"
    /\ \A c \in CallsOf(r) : calls[c].pc = "done"
    /\ requests' = [requests EXCEPT ![r].pc = "clear"]
    /\ calls' = [c \in DOMAIN calls \ CallsOf(r) |-> calls[c]]
    /\ UNCHANGED <<data_cache, fetch_lru, result_queue, result_tree, poll_timers,
                   colorblind_mode, dark_mode, last_write, script, scenario>>

\* the number of requests that have put their 'clear'
ClearsPut == Cardinality({q \in 1..Len(requests) : requests[q].cleared > 0})

\* variant: the worker empties the table itself instead of asking the UI thread
PutClearOnWorker(r) ==
    /\ requests[r].pc = "clear"
    /\ result_queue' = result_queue
    /\ result_tree' = IF requests[r].kind = "all" THEN <<>> ELSE result_tree
    /\ requests' = [requests EXCEPT ![r].pc = "rows", ![r].idx = 1,
                                    ![r].cleared = ClearsPut + 1]
    /\ calls' = [c \in DOMAIN calls \ CallsOf(r) |-> calls[c]]
    /\ UNCHANGED <<data_cache, fetch_lru, poll_timers, colorblind_mode,
                   dark_mode, last_write, script, scenario>>

\* self.result_queue.put(('clear', None))
PutClear(r) ==
    /\ requests[r].pc = "clear"
    /\ result_queue' = Append(result_queue, ClearMessage(r))
    /\ requests' = [requests EXCEPT ![r].pc = "rows", ![r].idx = 1,
                                    ![r].cleared = ClearsPut + 1]
    /\ calls' = [c \in DOMAIN calls \ CallsOf(r) |-> calls[c]]
    /\ UNCHANGED <<data_cache, fetch_lru, result_tree, poll_timers, colorblind_mode,
                   dark_mode, last_write, script, scenario>>

\* one pass of the `for symbol in symbols` loop that builds and puts the rows: the
\* price is fetched, the row is put
PutRow(r, price) ==
    /\ requests[r].pc = "rows"
    /\ LET request == requests[r]
           symbol == request.symbols[request.idx]
           row == IF request.kind = "single" THEN SingleRow(request, symbol, price)
                  ELSE AllRow(request, symbol, price)
       IN  /\ result_queue' = Append(result_queue, InsertMessage(r, row))
           /\ requests' = [requests EXCEPT
                              ![r].idx = @ + 1,
                              ![r].pc = IF request.idx = Len(request.symbols)
                                        THEN "done" ELSE "rows"]
    /\ UNCHANGED <<data_cache, fetch_lru, result_tree, poll_timers, colorblind_mode,
                   dark_mode, calls, last_write, script, scenario>>

(***************************************************************************)
(* Runs.  A scenario fixes the clicks the user makes (in order; when, is   *)
(* free), what the user may type and what the provider may answer.  The    *)
(* specification starts in any of them.                                    *)
(***************************************************************************)
TextA == <<"a">>

TextAB == <<" ", "a", ",", "B">>

TextAA == <<"a", ",", ",", "A", " ">>

TextInvalid == <<"a", ",", "b", "!">>

TextBlank == <<" ", ",">>

\* the number of clicks of a session
MaxClicks == 2

RECURSIVE ScriptsOfLength(_, _)
ScriptsOfLength(n, kinds) ==
    IF n = 0 THEN {<<>>}
    ELSE {<<k>> \o t : k \in kinds, t \in ScriptsOfLength(n - 1, kinds)}

ScenarioNames ==
    {"race", "flaky", "typing", "typing all", "session", "warm", "overlap", "busy",
     "buffett", "verdicts"}

ScenarioDef(name) ==
    CASE name = "race" ->
             [scripts |-> {<<"all">>}, texts |-> {TextA}, methods |-> MethodNames,
              answers |-> {SnapFavourable, SnapUnfavourable},
              prices |-> {PriceUnavailable}]
      [] name = "flaky" ->
             [scripts |-> {<<"all">>}, texts |-> {TextA}, methods |-> MethodNames,
              answers |-> {SnapFavourable, None}, prices |-> {PriceUnavailable}]
      [] name = "typing" ->
             [scripts |-> {<<"method">>},
              texts |-> {TextA, TextAB, TextAA, TextInvalid, TextBlank},
              methods |-> MethodNames,
              answers |-> {SnapFavourable, SnapEmpty, None},
              prices |-> {PriceUnavailable, PriceUp}]
      [] name = "typing all" ->
             [scripts |-> {<<"all">>}, texts |-> {TextAA, TextInvalid, TextBlank},
              methods |-> MethodNames, answers |-> {SnapFavourable},
              prices |-> {PriceUp}]
      [] name = "session" ->
             [scripts |-> ScriptsOfLength(MaxClicks, {"method", "toggle"}),
              texts |-> {TextA}, methods |-> MethodNames,
              answers |-> {SnapFavourable, SnapUnfavourable}, prices |-> {PriceUp}]
      [] name = "warm" ->
             [scripts |-> {<<"method", "all">>}, texts |-> {TextAB},
              methods |-> {"calculate_hempton_nutty"},
              answers |-> {SnapFavourable, None}, prices |-> {PriceUp}]
      [] name = "overlap" ->
             [scripts |-> {<<"method", "all", "all">>}, texts |-> {TextA},
              methods |-> {"calculate_value"}, answers |-> {SnapFavourable},
              prices |-> {PriceUp}]
      [] name = "busy" ->
             [scripts |-> {<<"all", "method">>}, texts |-> {TextA},
              methods |-> {"calculate_value"}, answers |-> {SnapFavourable},
              prices |-> {PriceUp}]
      [] name = "buffett" ->
             [scripts |-> {<<"method">>}, texts |-> {TextA},
              methods |-> {"calculate_value"}, answers |-> BuffettSnapshots,
              prices |-> {PriceUnavailable}]
      [] name = "verdicts" ->
             [scripts |-> {<<"method">>}, texts |-> {TextA}, methods |-> MethodNames,
              answers |-> {SnapFavourable, SnapUnfavourable, SnapTie, SnapEmpty,
                           SnapZero, None},
              prices |-> {PriceUp}]

Texts == ScenarioDef(scenario).texts

ClickableMethods == ScenarioDef(scenario).methods

Answers == ScenarioDef(scenario).answers

Prices == ScenarioDef(scenario).prices

\* the state after __init__: setup_gui has scheduled process_queue twice
InitApp ==
    /\ data_cache = EmptyDict
    /\ fetch_lru = <<>>
    /\ result_queue = <<>>
    /\ result_tree = <<>>
    /\ poll_timers = 2
    /\ colorblind_mode = FALSE
    /\ dark_mode = FALSE
    /\ requests = <<>>
    /\ calls = EmptyDict
    /\ last_write = EmptyDict

Init ==
    /\ InitApp
    /\ scenario \in ScenarioNames
    /\ script \in ScenarioDef(scenario).scripts

Next ==
    \/ \E method \in ClickableMethods, text \in Texts : ClickMethod(method, text)
    \/ \E text \in Texts : ClickRunAll(text)
    \/ ProcessQueue
    \/ ToggleColorblindMode
    \/ ToggleDarkMode
    \/ \E r \in 1..Len(requests) : StartRunMethods(r)
    \/ \E c \in DOMAIN calls : Lookup(c)
    \/ \E c \in DOMAIN calls, answer \in Answers : Query(c, answer)
    \/ \E c \in DOMAIN calls : Return(c)
    \/ \E r \in 1..Len(requests) : Join(r)
    \/ \E r \in 1..Len(requests) : PutClear(r)
    \/ \E r \in 1..Len(requests), price \in Prices : PutRow(r, price)

Spec == Init /\ [][Next]_vars

\* a step of the code of a request: of its worker threads, or of the button handler
\* that runs a single-method request
RequestStep ==
    \/ \E r \in 1..Len(requests) :
          \/ StartRunMethods(r)
          \/ Join(r)
          \/ PutClear(r)
          \/ \E price \in Prices : PutRow(r, price)
    \/ \E c \in DOMAIN calls :
          \/ Lookup(c)
          \/ Return(c)
          \/ \E answer \in Answers : Query(c, answer)

\* some step of the code of a request can be taken: a request that has started
\* always has one, and the oldest submitted run_methods has one when a worker of
\* the executor is free
RequestEnabled ==
    \E r \in 1..Len(requests) :
        \/ requests[r].pc \in {"methods", "clear", "rows"}
        \/ /\ requests[r].pc = "queued"
           /\ Cardinality({q \in 1..Len(requests) :
                              requests[q].kind = "all"
                              /\ requests[q].pc \notin {"queued", "done"}})
                  < MAX_WORKERS

\* the runs in which requests overlap, tables are rebuilt and inputs are rejected
FairScenarios == {"session", "typing all", "warm", "overlap", "busy"}

FairInit == Init /\ scenario \in FairScenarios

\* threads that can run do run and provider calls return: weak fairness of
\* RequestStep, with the steps' enabling condition written as RequestEnabled
FairSpec ==
    /\ FairInit
    /\ [][Next]_vars
    /\ ([]<>(~RequestEnabled) \/ []<><<RequestStep>>_vars)

(***************************************************************************)
(* Threads.  The steps of a Run All request are taken by pool threads, all *)
(* other steps by the UI thread.                                           *)
(***************************************************************************)
OnPool(r) == requests[r].kind = "all"

WorkerStep ==
    \/ \E r \in 1..Len(requests) :
          /\ OnPool(r)
          /\ \/ StartRunMethods(r)
             \/ Join(r)
             \/ PutClear(r)
             \/ \E price \in Prices : PutRow(r, price)
    \/ \E c \in DOMAIN calls :
          /\ OnPool(c[1])
          /\ \/ Lookup(c)
             \/ Return(c)
             \/ \E answer \in Answers : Query(c, answer)

\* one message was put at the end of the queue, a 'clear' or an 'insert'
PutOneMessage ==
    /\ Len(result_queue') = Len(result_queue) + 1
    /\ SubSeq(result_queue', 1, Len(result_queue)) = result_queue
    /\ result_queue'[Len(result_queue')].action \in {"clear", "insert"}

\* C1: the results table changes only in steps of the UI thread (the queue poll and
\* the two toggles, which rebuild it); a step of a pool thread leaves the table as
\* it is and does nothing to the queue but put one 'clear' or 'insert' message
C1_TableOnlyOnUiThread ==
    [][/\ WorkerStep =>
            /\ result_tree' = result_tree
            /\ result_queue' = result_queue \/ PutOneMessage
       /\ result_tree' # result_tree =>
            ProcessQueue \/ ToggleColorblindMode \/ ToggleDarkMode]_vars

\* a pool thread has put its 'clear' while the table still shows older rows
C1_Witness ==
    /\ result_tree # <<>>
    /\ \E i \in 1..Len(result_queue) :
          result_queue[i].action = "clear" /\ OnPool(result_queue[i].req)

\* C2: no fetch, price fetch or formula evaluation runs on the UI thread, that is,
\* every request that is past its submission is worked on by pool threads
C2_AnalysisOffUiThread ==
    /\ \A r \in 1..Len(requests) : Active(r) => OnPool(r)
    /\ \A c \in DOMAIN calls : OnPool(c[1])

(***************************************************************************)
(* Order of messages and rows.                                             *)
(***************************************************************************)
\* the ticker a row or an insert message shows in its first column
RowTicker(row) == row.values[1][1][1].sym

\* <<>> for 'clear', the ticker for 'insert'
MessageKey(message) == IF message.action = "clear" THEN <<>> ELSE RowTicker(message)

\* the keys of the messages a request has put so far: clear, then typed order
ExpectedPuts(request) ==
    CASE request.pc = "rows" -> <<<<>>>> \o SubSeq(request.symbols, 1, request.idx - 1)
      [] request.pc = "done" -> <<<<>>>> \o request.symbols
      [] OTHER -> <<>>

IsSuffix(a, b) == Len(a) <= Len(b) /\ a = SubSeq(b, Len(b) - Len(a) + 1, Len(b))

\* C3: for a request with no other request in flight, the messages it has in the
\* queue are in the order 'clear', then one insert per symbol in typed order, and
\* once it is finished and the queue drained the table is exactly one row per
\* entered symbol, in input order, all of them rows of this request
C3_FifoOrder ==
    \A r \in 1..Len(requests) :
        requests[r].alone =>
            LET mine == SelectSeq(result_queue, LAMBDA m : m.req = r)
                keys == [i \in 1..Len(mine) |-> MessageKey(mine[i])]
            IN  /\ IsSuffix(keys, ExpectedPuts(requests[r]))
                /\ (r = Len(requests) /\ requests[r].pc = "done" /\ result_queue = <<>>) =>
                       /\ [i \in 1..Len(result_tree) |-> RowTicker(result_tree[i])]
                              = requests[r].symbols
                       /\ \A i \in 1..Len(result_tree) : result_tree[i].req = r

\* a second request, on two different symbols, ran alone and its rows were drained
C3_Witness ==
    /\ Len(requests) = 2
    /\ requests[2].alone /\ requests[2].pc = "done"
    /\ Len(requests[2].symbols) = 2 /\ requests[2].symbols[1] # requests[2].symbols[2]
    /\ result_queue = <<>>
    /\ Len(result_tree) = 2

(***************************************************************************)
(* Errors.                                                                 *)
(***************************************************************************)
\* the statement line items and info fields the formula of a method reads
FieldsRead(method) ==
    CASE method = "calculate_value" ->
             [financials |-> {"Pretax Income"},
              balance_sheet |-> {"Cash And Cash Equivalents", "Total Debt"},
              info |-> {"marketCap"}, cashflow |-> {}]
      [] method = "evaluate_stock" ->
             [financials |-> {"Net Income"},
              balance_sheet |-> {"Short Long Term Debt", "Long Term Debt"},
              info |-> {"bookValue", "sharesOutstanding", "currentPrice", "trailingEps"},
              cashflow |-> {}]
      [] method = "calculate_hartz_millsap_hill" ->
             [financials |-> {}, balance_sheet |-> {},
              info |-> {"returnOnEquity", "bookValue", "currentPrice"}, cashflow |-> {}]
      [] method = "calculate_intrinsic_value" ->
             [financials |-> {}, balance_sheet |-> {},
              info |-> {"marketCap"}, cashflow |-> {"Free Cash Flow"}]
      [] method = "calculate_hempton_nutty" ->
             [financials |-> {}, balance_sheet |-> {},
              info |-> {"marketCap", "totalRevenue"}, cashflow |-> {}]

MissingField(method, data) ==
    \E part \in {"financials", "balance_sheet", "info", "cashflow"} :
        FieldsRead(method)[part] \ DOMAIN data[part] # {}

\* a value the formula of a method divides by is zero
ZeroDivisor(method, data) ==
    LET info == data.info
        IsZero(key) == key \in DOMAIN info /\ info[key] = Num(0)
    IN  CASE method = "evaluate_stock" ->
                 IsZero("bookValue") \/ IsZero("sharesOutstanding") \/ IsZero("currentPrice")
          [] method = "calculate_hartz_millsap_hill" ->
                 IsZero("bookValue") \/ IsZero("currentPrice")
          [] method = "calculate_intrinsic_value" ->
                 /\ "Free Cash Flow" \in DOMAIN data.cashflow
                 /\ LET fcf == data.cashflow["Free Cash Flow"]
                    IN  \E i \in 1..(Len(fcf) - 1) : fcf[i] = Num(0)
          [] method = "calculate_hempton_nutty" -> IsZero("totalRevenue")
          [] OTHER -> FALSE

IsErrorText(result) == result.text[1][1].pre = "Error"

\* C4: whenever the snapshot could not be fetched, or lacks a line item or info
\* field the formula reads, or makes the formula divide by zero, the result stored
\* for the symbol is an error text with the 'red' tag
C4_TroubleGivesRedError ==
    \A c \in DOMAIN calls :
        \A s \in DOMAIN calls[c].results :
            LET data == calls[c].used[s]
            IN  (data = None \/ MissingField(c[2], data) \/ ZeroDivisor(c[2], data)) =>
                    IsErrorText(calls[c].results[s]) /\ calls[c].results[s].tag = "red"

\* the try block of a method raises on this snapshot
FormulaRaises(method, data) ==
    CASE method = "calculate_value" -> calculate_value_try(data).raised
      [] method = "evaluate_stock" -> evaluate_stock_try(data).raised
      [] method = "calculate_hartz_millsap_hill" ->
             calculate_hartz_millsap_hill_try(data).raised
      [] method = "calculate_intrinsic_value" -> calculate_intrinsic_value_try(data).raised
      [] method = "calculate_hempton_nutty" -> calculate_hempton_nutty_try(data).raised

\* what the method returns for the one-symbol list <<symbol>> when the fetch gives data
MethodAlone(method, symbol, data) ==
    LoopBody(NewCall, method, <<symbol>>, data).results[symbol]

\* C5: a call of a method has an entry for every symbol it has gone past, and when
\* it has returned, for every symbol passed in; the entry of a symbol whose fetch
\* gave nothing or whose formula raised is an error text, and every entry is what
\* the method returns for that symbol alone on the same snapshot
C5_FailuresAreIsolated ==
    \A c \in DOMAIN calls :
        LET call == calls[c]
            symbols == requests[c[1]].symbols
            passed == {symbols[i] : i \in 1..(call.idx - 1)}
        IN  /\ DOMAIN call.results = passed
            /\ call.pc = "done" => passed = {symbols[i] : i \in 1..Len(symbols)}
            /\ \A s \in passed :
                  /\ (call.used[s] = None \/ FormulaRaises(c[2], call.used[s])) =>
                         IsErrorText(call.results[s])
                  /\ call.results[s] = MethodAlone(c[2], s, call.used[s])

\* a call returned for two symbols: the fetch of the first failed, the second has
\* its verdict
C5_Witness ==
    \E c \in DOMAIN calls :
        LET call == calls[c]
            symbols == requests[c[1]].symbols
        IN  /\ call.pc = "done" /\ Len(symbols) = 2 /\ symbols[1] # symbols[2]
            /\ call.used[symbols[1]] = None
            /\ call.used[symbols[2]] # None
            /\ ~IsErrorText(call.results[symbols[2]])

(***************************************************************************)
(* Input validation, stated on the typed text without the program's own    *)
(* splitting and stripping.                                                *)
(***************************************************************************)
\* the positions entries start after: 0 and every comma
Cuts(text) == {0} \cup {i \in 1..Len(text) : text[i] = ","}

NthCut(text, k) ==
    CHOOSE c \in Cuts(text) : Cardinality({d \in Cuts(text) : d < c}) = k - 1

\* the entry after a cut: the characters up to the next comma or the end
EntryAfter(text, c) ==
    LET ends == {d \in Cuts(text) \cup {Len(text) + 1} : d > c}
        next == CHOOSE d \in ends : \A e \in ends : d <= e
    IN  SubSeq(text, c + 1, next - 1)

Trimmed(entry) ==
    LET inked == {i \in 1..Len(entry) : entry[i] # " "}
    IN  IF inked = {} THEN <<>>
        ELSE SubSeq(entry, CHOOSE i \in inked : \A j \in inked : i <= j,
                    CHOOSE i \in inked : \A j \in inked : i >= j)

\* the trimmed, non-empty entries of the typed text, in input order
TypedEntries(text) ==
    SelectSeq([k \in 1..Cardinality(Cuts(text)) |-> Trimmed(EntryAfter(text, NthCut(text, k)))],
              LAMBDA entry : entry # <<>>)

Rejected(text) ==
    \/ TypedEntries(text) = <<>>
    \/ \E i \in 1..Len(TypedEntries(text)) :
          \E j \in 1..Len(TypedEntries(text)[i]) : ~IsAlnumChar(TypedEntries(text)[i][j])

ExpectedSymbols(text) ==
    [i \in 1..Len(TypedEntries(text)) |->
        [j \in 1..Len(TypedEntries(text)[i]) |-> UpperChar(TypedEntries(text)[i][j])]]

\* C6: a click on a method button or on Run All with a text that has no entry, or
\* an entry that is not alphanumeric, starts no request and no call, puts no
\* message, and leaves table and caches as they are; with any other text it starts
\* one request whose symbols are the trimmed, upper-cased, non-empty entries in
\* input order, duplicates kept
C6_ValidationGatesRequest ==
    [][\A text \in Texts :
          ((\E method \in ClickableMethods : ClickMethod(method, text)) \/ ClickRunAll(text)) =>
              IF Rejected(text)
              THEN UNCHANGED <<requests, calls, result_queue, result_tree, data_cache,
                               fetch_lru, last_write>>
              ELSE /\ Len(requests') = Len(requests) + 1
                   /\ requests'[Len(requests')].symbols = ExpectedSymbols(text)
                   /\ UNCHANGED <<result_queue, result_tree, data_cache>>]_vars

\* the one click of a run was made on a text that did not pass: nothing was started
C6_Witness ==
    /\ scenario \in {"typing", "typing all"}
    /\ script = <<>>
    /\ requests = <<>> /\ calls = EmptyDict
    /\ result_queue = <<>> /\ data_cache = EmptyDict

(***************************************************************************)
(* The snapshot cache.                                                     *)
(***************************************************************************)
\* every method call of a Run All request has returned
AllCallsReturned(r) == OnPool(r) /\ requests[r].pc \in {"clear", "rows", "done"}

\* C7: however the fetches of concurrent evaluations interleave, data_cache has one
\* snapshot for each symbol ever written, the one written last, and when the five
\* method calls of a Run All have returned each of them has produced a result for
\* every symbol
C7_LastWriteWins ==
    /\ DOMAIN data_cache = DOMAIN last_write
    /\ \A s \in DOMAIN last_write : data_cache[s] = last_write[s]
    /\ \A r \in 1..Len(requests) :
          AllCallsReturned(r) =>
              \A s \in DOMAIN requests[r].results :
                  DOMAIN requests[r].results[s] = {MethodLabel(m) : m \in MethodNames}
    /\ \A c \in DOMAIN calls :
          calls[c].pc = "done" =>
              \A i \in 1..Len(requests[c[1]].symbols) :
                  requests[c[1]].symbols[i] \in DOMAIN calls[c].results

\* two calls of one Run All both asked the provider for the same symbol, got
\* different snapshots and returned; the cache holds the one written last
C7_Witness ==
    \E c1 \in DOMAIN calls, c2 \in DOMAIN calls :
        /\ c1[1] = c2[1] /\ c1[2] # c2[2] /\ OnPool(c1[1])
        /\ calls[c1].pc = "done" /\ calls[c2].pc = "done"
        /\ \E s \in DOMAIN calls[c1].used \cap DOMAIN calls[c2].used :
              /\ calls[c1].used[s] # None /\ calls[c2].used[s] # None
              /\ calls[c1].used[s] # calls[c2].used[s]
              /\ data_cache[s] = last_write[s]
              /\ s \in DOMAIN calls[c1].results /\ s \in DOMAIN calls[c2].results

\* C8: a snapshot once stored for a symbol is never removed and never replaced by
\* a different one, the provider is never asked for a symbol that has a stored
\* snapshot, and every evaluation of such a symbol uses the stored snapshot
C8_StoredSnapshotIsFinal ==
    [][/\ \A s \in DOMAIN data_cache :
             s \in DOMAIN data_cache' /\ data_cache'[s] = data_cache[s]
       /\ \A c \in DOMAIN calls :
             (\E answer \in Answers : Query(c, answer)) =>
                 requests[c[1]].symbols[calls[c].idx] \notin DOMAIN data_cache
       /\ \A c \in DOMAIN calls \cap DOMAIN calls' :
             \A s \in DOMAIN calls'[c].used \ DOMAIN calls[c].used :
                 s \in DOMAIN data_cache => calls'[c].used[s] = data_cache[s]]_vars

(***************************************************************************)
(* Row colours.                                                            *)
(***************************************************************************)
\* the (result_text, tag) a single-method request got for the symbol of a row
RowResult(row) ==
    requests[row.req].results[RowTicker(row)][MethodLabel(requests[row.req].method)]

\* C9 as stated: the row of a single-method run has the tag the method returned as
\* its colour, whichever of the five methods it is, and the colour of a Run All row
\* is the tag of one of its verdicts
C9_RowsCarryVerdictColour ==
    \A i \in 1..Len(result_tree) :
        LET row == result_tree[i]
            request == requests[row.req]
        IN  IF request.kind = "single"
            THEN row.tags = <<RowResult(row).tag>>
            ELSE row.tags[1] \in {request.results[RowTicker(row)][l].tag :
                                     l \in DOMAIN request.results[RowTicker(row)]}

\* C9 as amended: the row of a single-method run of the Buffett, the Hartz-Millsap-
\* Hill or the Pabrai method has the tag the method returned as its colour (green,
\* red, or black for a Pabrai tie); the rows of single-method runs of the Brandes and
\* the Hempton Nutty method and all rows of Run All are black
C9_ColourForThreeMethods ==
    \A i \in 1..Len(result_tree) :
        LET row == result_tree[i]
            request == requests[row.req]
        IN  IF /\ request.kind = "single"
               /\ request.method \in {"calculate_value", "calculate_hartz_millsap_hill",
                                      "calculate_intrinsic_value"}
            THEN row.tags = <<RowResult(row).tag>>
            ELSE row.tags = <<"black">>

\* the table shows a black row of a Brandes run whose verdict is tagged green
C9_Witness ==
    \E i \in 1..Len(result_tree) :
        /\ requests[result_tree[i].req].kind = "single"
        /\ requests[result_tree[i].req].method = "evaluate_stock"
        /\ RowResult(result_tree[i]).tag = "green"
        /\ result_tree[i].tags = <<"black">>

(***************************************************************************)
(* The Buffett formula, in integers.                                       *)
(***************************************************************************)
IsWhole(x) == x[2] = 1

\* the snapshot has every field calculate_value reads, with whole numbers
Complete(data) ==
    /\ data # None
    /\ ~MissingField("calculate_value", data)
    /\ LET pretax == data.financials["Pretax Income"]
       IN  /\ pretax # <<>>
           /\ \A i \in 1..Len(pretax) : i <= 5 => IsWhole(pretax[i])
    /\ IsWhole(data.balance_sheet["Cash And Cash Equivalents"][1])
    /\ IsWhole(data.balance_sheet["Total Debt"][1])
    /\ IsWhole(data.info["marketCap"])

RECURSIVE SumFirst(_, _)
SumFirst(series, k) == IF k = 0 THEN 0 ELSE series[k][1] + SumFirst(series, k - 1)

\* the number of pretax-income values that count: up to five
Counted(data) ==
    IF Len(data.financials["Pretax Income"]) < 5
    THEN Len(data.financials["Pretax Income"]) ELSE 5

\* Counted(data) times the adjusted value: 10 x mean + cash - debt
ScaledAdjusted(data) ==
    10 * SumFirst(data.financials["Pretax Income"], Counted(data))
        + Counted(data) * (data.balance_sheet["Cash And Cash Equivalents"][1][1]
                           - data.balance_sheet["Total Debt"][1][1])

\* C10: on a snapshot with all fields calculate_value gives a verdict whose printed
\* adjusted value is 10 x the mean of the up to five most recent pretax incomes +
\* the most recent cash - the most recent total debt (to the cent), whose printed
\* market cap is the market cap, and whose tag is 'green' when the adjusted value is
\* greater than the market cap and 'red' when it is equal or less
C10_BuffettFormula ==
    \A c \in DOMAIN calls :
        c[2] = "calculate_value" =>
            \A s \in DOMAIN calls[c].results :
                LET data == calls[c].used[s]
                    result == calls[c].results[s]
                    shown == result.text[2][1].val
                    n == Counted(data)
                    cap == data.info["marketCap"][1]
                IN  Complete(data) =>
                        /\ ~IsErrorText(result)
                        /\ 200 * Abs(shown[1] * n - ScaledAdjusted(data) * shown[2])
                               <= shown[2] * n
                        /\ result.text[5][1].val = Num(cap)
                        /\ result.tag = IF ScaledAdjusted(data) > n * cap
                                        THEN "green" ELSE "red"

\* a verdict on more than five pretax incomes whose adjusted value equals the
\* market cap
C10_Witness ==
    \E c \in DOMAIN calls :
        /\ c[2] = "calculate_value"
        /\ \E s \in DOMAIN calls[c].results :
              LET data == calls[c].used[s]
              IN  /\ Complete(data)
                  /\ Len(data.financials["Pretax Income"]) > 5
                  /\ ScaledAdjusted(data) = Counted(data) * data.info["marketCap"][1]
                  /\ calls[c].results[s].tag = "red"

(***************************************************************************)
(* The layout of rows.                                                     *)
(***************************************************************************)
\* C11: every insert message in the queue has seven values and a list of seven
\* tags; the first value is the ticker of a symbol of its request and the seventh
\* the price text; for a single-method request the one method column filled is
\* that of the method run, with its result text, and for Run All each of the five
\* method columns has the result text of its method
C11_SevenColumns ==
    \A i \in 1..Len(result_queue) :
        LET message == result_queue[i]
            request == requests[message.req]
        IN  message.action = "insert" =>
                /\ DOMAIN message.values = 1..7
                /\ DOMAIN message.tags = 1..7
                /\ \E j \in 1..Len(request.symbols) :
                      /\ message.values[1] = <<<<SymWord(request.symbols[j], "")>>>>
                      /\ \A k \in 1..5 :
                            IF request.kind = "all" \/ request.method = Methods[k]
                            THEN /\ message.values[k + 1] # <<>>
                                 /\ message.values[k + 1] =
                                        request.results[request.symbols[j]]
                                                       [MethodLabel(Methods[k])].text
                            ELSE message.values[k + 1] = <<>>
                /\ message.values[7] # <<>>

\* the queue holds a row of a Buffett run and a row of a Run All
C11_Witness ==
    /\ \E i \in 1..Len(result_queue) :
          /\ result_queue[i].action = "insert"
          /\ requests[result_queue[i].req].kind = "single"
          /\ requests[result_queue[i].req].method = "calculate_value"
    /\ \E i \in 1..Len(result_queue) :
          /\ result_queue[i].action = "insert"
          /\ requests[result_queue[i].req].kind = "all"

(***************************************************************************)
(* Polling.                                                                *)
(***************************************************************************)
\* C13: there is exactly one polling chain, that is, in every state exactly one
\* process_queue callback is pending
C13_OnePollingChain == poll_timers = 1

(***************************************************************************)
(* Run All waits for its five methods.                                     *)
(***************************************************************************)
AllLabels == {MethodLabel(m) : m \in MethodNames}

\* the five method calls of a request have returned results for all its symbols
MethodsFinished(r) ==
    /\ requests[r].pc \in {"clear", "rows", "done"}
    /\ CallsOf(r) = {}
    /\ \A s \in DOMAIN requests[r].results : DOMAIN requests[r].results[s] = AllLabels

\* C14: whenever a message of a Run All request is in the queue, or a row of it in
\* the table, the five method calls of the request have all returned, with a
\* result for every symbol, and no method column of the row says "No Data"
C14_RowsAfterAllMethods ==
    /\ \A i \in 1..Len(result_queue) :
          LET message == result_queue[i]
          IN  OnPool(message.req) =>
                  /\ MethodsFinished(message.req)
                  /\ message.action = "insert" =>
                         \A k \in 1..5 : message.values[k + 1] # <<Words(<<"No", "Data">>)>>
    /\ \A i \in 1..Len(result_tree) :
          LET row == result_tree[i]
          IN  OnPool(row.req) =>
                  /\ MethodsFinished(row.req)
                  /\ \A k \in 1..5 : row.values[k + 1] # <<Words(<<"No", "Data">>)>>

\* the queue holds the 'clear' and both rows of a Run All on two symbols
C14_Witness ==
    \E r \in 1..Len(requests) :
        /\ OnPool(r) /\ Len(requests[r].symbols) = 2 /\ requests[r].pc = "done"
        /\ Len(SelectSeq(result_queue, LAMBDA m : m.req = r)) = 3

(***************************************************************************)
(* Rows of different requests.                                             *)
(***************************************************************************)
\* every accepted request has finished and the queue is drained
Quiet ==
    /\ requests # <<>>
    /\ \A r \in 1..Len(requests) : requests[r].pc = "done"
    /\ result_queue = <<>>

\* the request whose 'clear' was put last
LastCleared ==
    CHOOSE r \in 1..Len(requests) :
        \A q \in 1..Len(requests) : requests[q].cleared <= requests[r].cleared

\* C15: once all requests have finished and the queue is drained, the table holds
\* the rows of one request only, the one whose 'clear' was put last, one row for
\* each of its symbols
C15_RowsOfOneRequest ==
    Quiet =>
        /\ \A i \in 1..Len(result_tree) : result_tree[i].req = LastCleared
        /\ Len(result_tree) = Len(requests[LastCleared].symbols)

(***************************************************************************)
(* Failed fetches.                                                         *)
(***************************************************************************)
\* fetch_stock_data has returned None for the symbol to a call still on record
ReturnedNone(s) ==
    \E c \in DOMAIN calls : s \in DOMAIN calls[c].used /\ calls[c].used[s] = None

\* C16: once fetch_stock_data has returned None for a symbol, data_cache gains no
\* entry for it, and an evaluation that enters fetch_stock_data for it afterwards
\* gets its answer at once, without a query, and reports "Error fetching data"
C16_FailureIsMemoized ==
    [][\A r \in 1..Len(requests) :
          \A i \in 1..Len(requests[r].symbols) :
              LET s == requests[r].symbols[i]
              IN  ReturnedNone(s) =>
                      /\ s \notin DOMAIN data_cache => s \notin DOMAIN data_cache'
                      /\ \A d \in DOMAIN calls :
                            (/\ calls[d].pc = "lookup"
                             /\ requests[d[1]].symbols[calls[d].idx] = s
                             /\ Lookup(d)) =>
                                /\ calls'[d].pc # "query"
                                /\ s \in DOMAIN calls'[d].results
                                /\ calls'[d].results[s] = FetchErrorResult(s)]_vars

(***************************************************************************)
(* No cancellation, no backpressure.                                       *)
(***************************************************************************)
ScriptLengths ==
    {Len(clicks) : clicks \in UNION {ScenarioDef(name).scripts : name \in ScenarioNames}}

\* the most requests a run can have
MostRequests == CHOOSE n \in ScriptLengths : \A m \in ScriptLengths : m <= n

\* the order in which a request goes through its steps
PcOrder(pc) ==
    CASE pc = "queued" -> 1 [] pc = "methods" -> 2 [] pc = "clear" -> 3
      [] pc = "rows" -> 4 [] pc = "done" -> 5

\* a request is never dropped, it takes its steps in order, one at a time, and it
\* gets from "clear" to "done" only by putting its 'clear' and then one insert for
\* each of its symbols
TakesEveryStep(r) ==
    /\ r <= Len(requests')
    /\ requests'[r].symbols = requests[r].symbols
    /\ PcOrder(requests'[r].pc) \in {PcOrder(requests[r].pc), PcOrder(requests[r].pc) + 1}
    /\ requests[r].pc = "clear" /\ requests'[r].pc # "clear" =>
          /\ PutOneMessage
          /\ result_queue'[Len(result_queue')] = ClearMessage(r)
    /\ requests[r].pc = "rows" /\ requests'[r].idx # requests[r].idx =>
          /\ PutOneMessage
          /\ result_queue'[Len(result_queue')].req = r
          /\ result_queue'[Len(result_queue')].action = "insert"
          /\ RowTicker(result_queue'[Len(result_queue')])
                 = requests[r].symbols[requests[r].idx]
          /\ requests'[r].idx = requests[r].idx + 1
          /\ requests'[r].pc = "done" <=> requests[r].idx = Len(requests[r].symbols)

\* C12: the 'clear' of a request can be put whatever the queue holds, a Run All
\* click can be made whatever requests are pending or running, no request is
\* dropped or skips a step, and every accepted request gets to its end, having put
\* its 'clear' and one insert for each of its symbols
C12_NoCancellation ==
    /\ [](\A r \in 1..Len(requests) : requests[r].pc = "clear" => ENABLED PutClear(r))
    /\ []((script # <<>> /\ Head(script) = "all" /\ ~UiBusy) =>
            ENABLED (\E text \in Texts : ClickRunAll(text)))
    /\ [][\A r \in 1..Len(requests) : TakesEveryStep(r)]_vars
    /\ \A r \in 1..MostRequests :
          (Len(requests) >= r) ~> (Len(requests) >= r /\ requests[r].pc = "done")

\* two Run All requests have finished, the second clicked while the first was
\* pending or running
C12_Witness ==
    \E r1 \in 1..Len(requests), r2 \in 1..Len(requests) :
        /\ r1 < r2 /\ OnPool(r1) /\ OnPool(r2)
        /\ ~requests[r1].alone /\ ~requests[r2].alone
        /\ requests[r1].pc = "done" /\ requests[r2].pc = "done"

====
